---- MODULE Spec2Model ----
(***************************************************************************)
(* Model of src/src/reader.ts: readSchemaSources and its helpers.          *)
(*                                                                         *)
(* Syntax-tree nodes (the output of graphql's parse) are records:          *)
(*   definition  [kind, name, directives, fields, values]                  *)
(*   field       [kind |-> "FieldDefinition", name, type, directives]      *)
(*   type        [kind |-> "NamedType", name] | [kind |-> "ListType", type]*)
(*               | [kind |-> "NonNullType", type]                          *)
(*   directive   [name, arguments]                                         *)
(*   argument    [name, kind, value, values]                               *)
(* A thrown error is a record [type, message, nodes, originalError]; nodes *)
(* is the path of the syntax node the error is attached to.  An operator   *)
(* that models a function which may throw yields a record with an error    *)
(* field, NoError when the function returns.  Where the code binds a       *)
(* result to a local and tests it, the model passes the result to a second *)
(* operator as a parameter.                                                *)
(***************************************************************************)
EXTENDS Integers, Sequences, FiniteSets, TLC

VARIABLES
    sources,        \* the parsed input documents, in the order given
    typeDefsMap,    \* Map name -> ObjectTypeDefinition, in insertion order
    enumDefsMap,    \* Map name -> EnumTypeDefinition, in insertion order
    pc,             \* "collect" | "tables" | "fields" | "enums" | "returned" | "thrown"
    doc,            \* index of the document being collected
    def,            \* index of the definition being collected in that document
    tbl,            \* index in typeDefsMap of the table being resolved
    fld,            \* index of the next field of that table
    table,          \* the SchemaTable under construction
    tables,         \* the SchemaTable[] collected so far
    enm,            \* index in enumDefsMap of the next enum
    enumerations,   \* the SchemaEnumeration[] collected so far
    error           \* the error thrown, NoError while none

vars == <<sources, typeDefsMap, enumDefsMap, pc, doc, def, tbl, fld, table,
          tables, enm, enumerations, error>>

----------------------------------------------------------------------------
(* Bounds of the inputs *)

MaxDocs == 2
MaxFields == 3
MaxValues == 3

----------------------------------------------------------------------------
(* Values *)

\* JavaScript null where a string is expected (not a legal GraphQL name)
Null == "<null>"

\* references: null
NullRef == [k \in {} |-> k]

ScalarTypes == {"bool", "string", "i16", "i32", "f32"}

ColumnTypes == ScalarTypes \cup {"array", "row", "foreignrow", "enumrow"}

NoCause == [type |-> "none", message |-> "", nodes |-> <<>>]

NoError == [type |-> "none", message |-> "", nodes |-> <<>>, originalError |-> NoCause]

GraphQLError(message, nodes) ==
    [type |-> "GraphQLError", message |-> message, nodes |-> nodes,
     originalError |-> NoCause]

GraphQLErrorCaused(message, nodes, e) ==
    [type |-> "GraphQLError", message |-> message, nodes |-> nodes,
     originalError |-> [type |-> e.type, message |-> e.message, nodes |-> e.nodes]]

AssertionError(where) ==
    [type |-> "AssertionError", message |-> where, nodes |-> <<>>,
     originalError |-> NoCause]

NodeOf(node) == <<node.kind, node.name>>

DirectiveOf(node, d) == NodeOf(node) \o <<"Directive", d.name>>

\* e when it is an error, else the rest of the computation
OrElse(e, rest) == IF e # NoError THEN e ELSE rest

\* Array.prototype.find by name: the smallest index of s whose element is
\* called name, 0 when there is none (undefined)
FirstNamed(s, name) ==
    IF \E i \in 1..Len(s) : s[i].name = name
    THEN CHOOSE i \in 1..Len(s) :
            s[i].name = name /\ \A j \in 1..(i - 1) : s[j].name # name
    ELSE 0

\* Number(arg.value.value) of an IntValue token
Number(s) ==
    CASE s = "0" -> 0
      [] s = "1" -> 1
      [] s = "2" -> 2
      [] OTHER -> 3

----------------------------------------------------------------------------
(* Directive specifications *)

UnknownArgument(path, a) ==
    GraphQLError("Unknown argument \"" \o a.name \o "\".",
                 path \o <<"Argument", a.name, "name">>)

RECURSIVE StringArgsFrom(_, _, _, _)
\* for (const arg of directive.arguments), from argument i on: the argument
\* must be called argName and be a string
StringArgsFrom(path, args, argName, i) ==
    IF i > Len(args) THEN NoError
    ELSE IF args[i].name # argName THEN UnknownArgument(path, args[i])
    ELSE IF args[i].kind # "StringValue"
    THEN GraphQLError("String expected.", path \o <<"Argument", argName, "value">>)
    ELSE StringArgsFrom(path, args, argName, i + 1)

RECURSIVE ListArgsFrom(_, _, _, _, _, _)
\* the same loop for an argument that must be a list of strings; nonEmpty
\* is the check of lines 179-183
ListArgsFrom(path, args, argName, listExpected, nonEmpty, i) ==
    IF i > Len(args) THEN NoError
    ELSE IF args[i].name # argName THEN UnknownArgument(path, args[i])
    ELSE IF args[i].kind # "ListValue"
    THEN GraphQLError(listExpected, path \o <<"Argument", argName, "value">>)
    ELSE IF nonEmpty /\ Len(args[i].values) = 0
    THEN GraphQLError("At least one tag should be in the list.",
                      path \o <<"Argument", argName, "value">>)
    ELSE IF \E k \in 1..Len(args[i].values) : args[i].values[k].kind # "StringValue"
    THEN GraphQLError("String expected.",
                      path \o <<"Argument", argName, "value", "values">>)
    ELSE ListArgsFrom(path, args, argName, listExpected, nonEmpty, i + 1)

RECURSIVE IndexingArgsFrom(_, _, _)
IndexingArgsFrom(path, args, i) ==
    IF i > Len(args) THEN NoError
    ELSE IF args[i].name # "first" THEN UnknownArgument(path, args[i])
    ELSE IF \/ args[i].kind # "IntValue"
            \/ (Number(args[i].value) # 0 /\ Number(args[i].value) # 1)
    THEN GraphQLError("Integer 0 or 1 expected.",
                      path \o <<"Argument", "first", "value">>)
    ELSE IndexingArgsFrom(path, args, i + 1)

DIRECTIVE_REF(path, d) ==
    IF Len(d.arguments) = 0 THEN GraphQLError("Missing referenced column name.", path)
    ELSE StringArgsFrom(path, d.arguments, "column", 1)

DIRECTIVE_UNIQUE(path, d) ==
    IF Len(d.arguments) # 0
    THEN GraphQLError("Directive doesn't accept arguments.", path \o <<"arguments">>)
    ELSE NoError

DIRECTIVE_LOCALIZED(path, d) ==
    IF Len(d.arguments) # 0
    THEN GraphQLError("Directive doesn't accept arguments.", path \o <<"arguments">>)
    ELSE NoError

DIRECTIVE_FILE(path, d) ==
    IF Len(d.arguments) = 0 THEN GraphQLError("Missing file extension.", path)
    ELSE StringArgsFrom(path, d.arguments, "ext", 1)

DIRECTIVE_FILES_GROUP(path, d) ==
    IF Len(d.arguments) = 0 THEN GraphQLError("Missing file extensions.", path)
    ELSE ListArgsFrom(path, d.arguments, "ext", "List of extensions expected.", FALSE, 1)

DIRECTIVE_ENUM_INDEXING(path, d) ==
    IF Len(d.arguments) = 0 THEN GraphQLError("Missing first enumerator index.", path)
    ELSE IndexingArgsFrom(path, d.arguments, 1)

DIRECTIVE_TABLE_TAGS(path, d) ==
    IF Len(d.arguments) = 0 THEN GraphQLError("Missing list of tags.", path)
    ELSE ListArgsFrom(path, d.arguments, "list", "List of tags expected.", TRUE, 1)

\* spec.validate(directive) when a specification of specs is called like the
\* directive, the unknown-directive error otherwise (lines 568-575)
ValidateDirective(node, specs, d) ==
    IF d.name \notin specs
    THEN GraphQLError("Unknown directive \"" \o d.name \o "\".",
                      DirectiveOf(node, d) \o <<"name">>)
    ELSE CASE d.name = "ref" -> DIRECTIVE_REF(DirectiveOf(node, d), d)
           [] d.name = "unique" -> DIRECTIVE_UNIQUE(DirectiveOf(node, d), d)
           [] d.name = "localized" -> DIRECTIVE_LOCALIZED(DirectiveOf(node, d), d)
           [] d.name = "file" -> DIRECTIVE_FILE(DirectiveOf(node, d), d)
           [] d.name = "files" -> DIRECTIVE_FILES_GROUP(DirectiveOf(node, d), d)
           [] d.name = "indexing" -> DIRECTIVE_ENUM_INDEXING(DirectiveOf(node, d), d)
           [] d.name = "tags" -> DIRECTIVE_TABLE_TAGS(DirectiveOf(node, d), d)

RECURSIVE DirectivesFrom(_, _, _)
\* the loop of validateDirectives from directive i on
DirectivesFrom(node, specs, i) ==
    IF i > Len(node.directives) THEN NoError
    ELSE OrElse(ValidateDirective(node, specs, node.directives[i]),
                DirectivesFrom(node, specs, i + 1))

\* the error of the first directive of node that fails, NoError when none;
\* specs is the set of the NAMEs of the specifications legal at node
validateDirectives(node, specs) == DirectivesFrom(node, specs, 1)

\* index of the first directive called name, 0 for undefined
findDirective(node, name) == FirstNamed(node.directives, name)

isUnique(field) == findDirective(field, "unique") # 0

isLocalized(field) == findDirective(field, "localized") # 0

----------------------------------------------------------------------------
(* Readers of validated directives *)

\* the assert.ok of a reader and its result, for the directive at index i of
\* ds (0: there is none): [error, defined, value, list]
SingleArgAt(ds, i, dname, argName, argKind) ==
    IF i = 0
    THEN [error |-> NoError, defined |-> FALSE, value |-> "", list |-> <<>>]
    ELSE IF /\ Len(ds[i].arguments) = 1
            /\ ds[i].arguments[1].name = argName
            /\ ds[i].arguments[1].kind = argKind
    THEN [error |-> NoError, defined |-> TRUE,
          value |-> ds[i].arguments[1].value,
          list |-> [k \in 1..Len(ds[i].arguments[1].values) |->
                       ds[i].arguments[1].values[k].value]]
    ELSE [error |-> AssertionError(dname), defined |-> FALSE, value |-> "",
          list |-> <<>>]

SingleArgOf(node, dname, argName, argKind) ==
    SingleArgAt(node.directives, findDirective(node, dname), dname, argName, argKind)

referencesField(field) == SingleArgOf(field, "ref", "column", "StringValue")

ValueOrNull(r) == [error |-> r.error, value |-> IF r.defined THEN r.value ELSE Null]

getFileExtension(field) == ValueOrNull(SingleArgOf(field, "file", "ext", "StringValue"))

\* files: null is [null |-> TRUE], a list is [null |-> FALSE, list |-> ...]
ListOrNull(r) == [error |-> r.error, value |-> [null |-> ~r.defined, list |-> r.list]]

getFileGroupExtensions(field) ==
    ListOrNull(SingleArgOf(field, "files", "ext", "ListValue"))

getTags(node) == SingleArgOf(node, "tags", "list", "ListValue")

IndexingBase(r) ==
    IF r.error = NoError /\ r.defined /\ Number(r.value) \in {0, 1}
    THEN [error |-> NoError, value |-> Number(r.value)]
    ELSE [error |-> AssertionError("indexing"), value |-> 0]

getIndexingBase(node) == IndexingBase(SingleArgOf(node, "indexing", "first", "IntValue"))

----------------------------------------------------------------------------
(* Type unwrapper *)

Unwrapped(field, array, type) ==
    IF type.kind # "NamedType"
    THEN [error |-> GraphQLError("Valid type expected.", NodeOf(field) \o <<"type">>),
          array |-> array, name |-> ""]
    ELSE IF type.name = "_" /\ ~array
    THEN [error |-> GraphQLError("Unknown type is only allowed inside an array.",
                                 NodeOf(field) \o <<"type">>),
          array |-> array, name |-> ""]
    ELSE [error |-> NoError, array |-> array, name |-> type.name]

\* unwrapType without the test of lines 485-489
unwrapTypeAnyPlaceholder(field) ==
    IF field.type.kind = "ListType"
    THEN IF field.type.type.kind # "NamedType"
         THEN Unwrapped(field, TRUE, field.type.type)
         ELSE [error |-> NoError, array |-> TRUE, name |-> field.type.type.name]
    ELSE IF field.type.kind # "NamedType"
         THEN Unwrapped(field, FALSE, field.type)
         ELSE [error |-> NoError, array |-> FALSE, name |-> field.type.name]

unwrapType(field) ==
    IF field.type.kind = "ListType"
    THEN Unwrapped(field, TRUE, field.type.type)
    ELSE Unwrapped(field, FALSE, field.type)

----------------------------------------------------------------------------
(* Symbol maps: a Map is the sequence of its values in insertion order *)

MapHas(map, name) == \E i \in 1..Len(map) : map[i].name = name

MapGet(map, name) == map[CHOOSE i \in 1..Len(map) : map[i].name = name]

----------------------------------------------------------------------------
(* Column resolver *)

\* lines 540-559 for the field found: [error, found, name]
ReferencedType(fieldNode, typeInfo) ==
    IF typeInfo.error # NoError
    THEN [error |-> typeInfo.error, found |-> FALSE, name |-> ""]
    ELSE IF typeInfo.array
    THEN [error |-> GraphQLError("Cannot refer to a column with an array type.",
                                 NodeOf(fieldNode) \o <<"type">>),
          found |-> FALSE, name |-> ""]
    ELSE IF ~isUnique(fieldNode)
    THEN [error |-> GraphQLError("Values in the referenced column must be unique.",
                                 NodeOf(fieldNode)),
          found |-> FALSE, name |-> ""]
    ELSE IF typeInfo.name \notin ScalarTypes
    THEN [error |-> GraphQLError("Cannot refer to a column with a non-scalar type.",
                                 NodeOf(fieldNode) \o <<"type">>),
          found |-> FALSE, name |-> ""]
    ELSE [error |-> NoError, found |-> TRUE, name |-> typeInfo.name]

ReferencedAt(fields, i) ==
    IF i = 0 THEN [error |-> NoError, found |-> FALSE, name |-> ""]
    ELSE ReferencedType(fields[i], unwrapType(fields[i]))

\* [error, found, name]: found = FALSE is the undefined result
findReferencedField(typeNode, name) ==
    ReferencedAt(typeNode.fields, FirstNamed(typeNode.fields, name))

NoColumn ==
    [name |-> Null, description |-> Null, array |-> FALSE, type |-> "",
     unique |-> FALSE, localized |-> FALSE, references |-> NullRef,
     until |-> Null, file |-> Null, files |-> [null |-> TRUE, list |-> <<>>]]

\* Classify with the scalar names tested before the name of the table
ClassifyScalarFirst(ctx, tableName, fieldNode, fieldType) ==
    IF fieldType.name \in ScalarTypes
    THEN [error |-> NoError, name |-> fieldType.name, references |-> NullRef]
    ELSE IF fieldType.name = tableName
    THEN [error |-> NoError, name |-> "row", references |-> [table |-> tableName]]
    ELSE IF fieldType.name = "rid"
    THEN [error |-> NoError, name |-> "foreignrow", references |-> NullRef]
    ELSE IF fieldType.name = "_" /\ fieldType.array
    THEN [error |-> NoError, name |-> "array", references |-> NullRef]
    ELSE IF MapHas(ctx.typeDefsMap, fieldType.name)
    THEN [error |-> NoError, name |-> "foreignrow",
          references |-> [table |-> fieldType.name]]
    ELSE IF MapHas(ctx.enumDefsMap, fieldType.name)
    THEN [error |-> NoError, name |-> "enumrow",
          references |-> [table |-> fieldType.name]]
    ELSE [error |-> GraphQLError(
              "Can't find referenced table/enum \"" \o fieldType.name \o "\".",
              NodeOf(fieldNode) \o <<"type">>),
          name |-> fieldType.name, references |-> NullRef]

\* Classify without the test of lines 340-342: the own table is a table
\* like any other
ClassifyNoSelf(ctx, tableName, fieldNode, fieldType) ==
    IF fieldType.name = "rid"
    THEN [error |-> NoError, name |-> "foreignrow", references |-> NullRef]
    ELSE IF fieldType.name = "_" /\ fieldType.array
    THEN [error |-> NoError, name |-> "array", references |-> NullRef]
    ELSE IF fieldType.name \in ScalarTypes
    THEN [error |-> NoError, name |-> fieldType.name, references |-> NullRef]
    ELSE IF MapHas(ctx.typeDefsMap, fieldType.name)
    THEN [error |-> NoError, name |-> "foreignrow",
          references |-> [table |-> fieldType.name]]
    ELSE IF MapHas(ctx.enumDefsMap, fieldType.name)
    THEN [error |-> NoError, name |-> "enumrow",
          references |-> [table |-> fieldType.name]]
    ELSE [error |-> GraphQLError(
              "Can't find referenced table/enum \"" \o fieldType.name \o "\".",
              NodeOf(fieldNode) \o <<"type">>),
          name |-> fieldType.name, references |-> NullRef]

\* the entries of map inserted before the one called name
Before(map, name) ==
    IF MapHas(map, name)
    THEN SubSeq(map, 1, (CHOOSE i \in 1..Len(map) : map[i].name = name) - 1)
    ELSE map

\* Classify in a single pass: a table or an enum is known only once declared,
\* the tables declared after the table of the field are not
ClassifyDeclaredBefore(ctx, tableName, fieldNode, fieldType) ==
    IF fieldType.name = tableName
    THEN [error |-> NoError, name |-> "row", references |-> [table |-> tableName]]
    ELSE IF fieldType.name = "rid"
    THEN [error |-> NoError, name |-> "foreignrow", references |-> NullRef]
    ELSE IF fieldType.name = "_" /\ fieldType.array
    THEN [error |-> NoError, name |-> "array", references |-> NullRef]
    ELSE IF fieldType.name \notin ScalarTypes
    THEN IF MapHas(Before(ctx.typeDefsMap, tableName), fieldType.name)
         THEN [error |-> NoError, name |-> "foreignrow",
               references |-> [table |-> fieldType.name]]
         ELSE IF MapHas(ctx.enumDefsMap, fieldType.name)
         THEN [error |-> NoError, name |-> "enumrow",
               references |-> [table |-> fieldType.name]]
         ELSE [error |-> GraphQLError(
                   "Can't find referenced table/enum \"" \o fieldType.name \o "\".",
                   NodeOf(fieldNode) \o <<"type">>),
               name |-> fieldType.name, references |-> NullRef]
    ELSE [error |-> NoError, name |-> fieldType.name, references |-> NullRef]

\* lines 340-360: [error, name, references]
Classify(ctx, tableName, fieldNode, fieldType) ==
    IF fieldType.name = tableName
    THEN [error |-> NoError, name |-> "row", references |-> [table |-> tableName]]
    ELSE IF fieldType.name = "rid"
    THEN [error |-> NoError, name |-> "foreignrow", references |-> NullRef]
    ELSE IF fieldType.name = "_" /\ fieldType.array
    THEN [error |-> NoError, name |-> "array", references |-> NullRef]
    ELSE IF fieldType.name \notin ScalarTypes
    THEN IF MapHas(ctx.typeDefsMap, fieldType.name)
         THEN [error |-> NoError, name |-> "foreignrow",
               references |-> [table |-> fieldType.name]]
         ELSE IF MapHas(ctx.enumDefsMap, fieldType.name)
         THEN [error |-> NoError, name |-> "enumrow",
               references |-> [table |-> fieldType.name]]
         ELSE [error |-> GraphQLError(
                   "Can't find referenced table/enum \"" \o fieldType.name \o "\".",
                   NodeOf(fieldNode) \o <<"type">>),
               name |-> fieldType.name, references |-> NullRef]
    ELSE [error |-> NoError, name |-> fieldType.name, references |-> NullRef]

\* Referenced without the try/catch of lines 369-379
ReferencedUncaught(fieldNode, references, refFieldName, r) ==
    IF r.error # NoError
    THEN [error |-> r.error, name |-> "", references |-> references]
    ELSE IF ~r.found
    THEN [error |-> GraphQLError(
                       "Can't find column \"" \o refFieldName \o "\" in table \""
                           \o references.table \o "\".",
                       NodeOf(fieldNode) \o <<"Directive", "ref">>),
          name |-> "", references |-> references]
    ELSE [error |-> NoError, name |-> r.name,
          references |-> [table |-> references.table, column |-> refFieldName]]

\* lines 368-387, refFieldType being the result r of findReferencedField
Referenced(fieldNode, references, refFieldName, r) ==
    IF r.error # NoError
    THEN [error |-> GraphQLErrorCaused(
                       "An error occurred while validating the referenced column.",
                       NodeOf(fieldNode) \o <<"Directive", "ref">>, r.error),
          name |-> "", references |-> references]
    ELSE IF ~r.found
    THEN [error |-> GraphQLError(
                       "Can't find column \"" \o refFieldName \o "\" in table \""
                           \o references.table \o "\".",
                       NodeOf(fieldNode) \o <<"Directive", "ref">>),
          name |-> "", references |-> references]
    ELSE [error |-> NoError, name |-> r.name,
          references |-> [table |-> references.table, column |-> refFieldName]]

\* lines 362-388 for a truthy refFieldName: [error, name, references]
ResolveRef(ctx, fieldNode, references, refFieldName) ==
    IF references = NullRef
    THEN [error |-> AssertionError("references?.table"), name |-> "",
          references |-> references]
    ELSE IF ~MapHas(ctx.typeDefsMap, references.table)
    THEN [error |-> AssertionError("refDefNode"), name |-> "",
          references |-> references]
    ELSE Referenced(fieldNode, references, refFieldName,
                    findReferencedField(MapGet(ctx.typeDefsMap, references.table),
                                        refFieldName))

\* lines 398-411, with the assert.ok of the two readers
Column(fieldNode, fieldType, r, file, files) ==
    IF file.error # NoError THEN [error |-> file.error, column |-> NoColumn]
    ELSE IF files.error # NoError THEN [error |-> files.error, column |-> NoColumn]
    ELSE [error |-> NoError,
          column |-> [name |-> IF fieldNode.name = "_" THEN Null ELSE fieldNode.name,
                      description |-> Null,
                      array |-> fieldType.array,
                      type |-> r.name,
                      unique |-> isUnique(fieldNode),
                      localized |-> isLocalized(fieldNode),
                      references |-> r.references,
                      until |-> Null,
                      file |-> file.value,
                      files |-> files.value]]

\* lines 390-411: r is the classification after the ref annotation
Closed(fieldNode, fieldType, r) ==
    IF r.error # NoError THEN [error |-> r.error, column |-> NoColumn]
    ELSE IF r.name \notin ColumnTypes
    THEN [error |-> AssertionError("ColumnType"), column |-> NoColumn]
    ELSE Column(fieldNode, fieldType, r, getFileExtension(fieldNode),
                getFileGroupExtensions(fieldNode))

\* lines 362-411: c is the classification of lines 340-360
Resolved(ctx, fieldNode, refFieldName, fieldType, c) ==
    IF c.error # NoError THEN [error |-> c.error, column |-> NoColumn]
    ELSE IF refFieldName.defined /\ refFieldName.value # ""
    THEN Closed(fieldNode, fieldType,
                ResolveRef(ctx, fieldNode, c.references, refFieldName.value))
    ELSE Closed(fieldNode, fieldType, c)

\* lines 336-411
Unwrap(ctx, tableName, fieldNode, refFieldName, fieldType) ==
    IF refFieldName.error # NoError
    THEN [error |-> refFieldName.error, column |-> NoColumn]
    ELSE IF fieldType.error # NoError
    THEN [error |-> fieldType.error, column |-> NoColumn]
    ELSE Resolved(ctx, fieldNode, refFieldName, fieldType,
                  Classify(ctx, tableName, fieldNode, fieldType))

\* lines 326-411
Validated(ctx, tableName, fieldNode, v) ==
    IF v # NoError THEN [error |-> v, column |-> NoColumn]
    ELSE Unwrap(ctx, tableName, fieldNode, referencesField(fieldNode),
                unwrapType(fieldNode))

\* [error, column]
parseFieldNode(ctx, tableName, fieldNode) ==
    Validated(ctx, tableName, fieldNode,
              validateDirectives(fieldNode,
                                 {"ref", "unique", "localized", "file", "files"}))

----------------------------------------------------------------------------
(* Enumeration resolver *)

RECURSIVE PushEnumerators(_, _, _)
\* the loop of lines 297-309 from value i on: [error, enumerators]
PushEnumerators(enumNode, i, enumerators) ==
    IF i > Len(enumNode.values) THEN [error |-> NoError, enumerators |-> enumerators]
    ELSE LET value == enumNode.values[i]
         IN  IF value = "_"
             THEN PushEnumerators(enumNode, i + 1, Append(enumerators, Null))
             ELSE IF \E k \in 1..Len(enumerators) : enumerators[k] = value
             THEN [error |-> GraphQLError("Duplicate enumerator \"" \o value \o "\".",
                                          NodeOf(enumNode) \o <<"values", value, "name">>),
                   enumerators |-> enumerators]
             ELSE PushEnumerators(enumNode, i + 1, Append(enumerators, value))

\* Collapsed when every enumerator is a placeholder, not only a single one
CollapsedAllPlaceholders(enumNode, indexing, pushed) ==
    IF pushed.error # NoError
    THEN [error |-> pushed.error,
          value |-> [name |-> enumNode.name, indexing |-> 0, enumerators |-> <<>>]]
    ELSE [error |-> NoError,
          value |-> [name |-> enumNode.name,
                     indexing |-> indexing.value,
                     enumerators |->
                         IF \A k \in 1..Len(pushed.enumerators) :
                                pushed.enumerators[k] = Null
                         THEN <<>>
                         ELSE pushed.enumerators]]

\* lines 311-318
Collapsed(enumNode, indexing, pushed) ==
    IF pushed.error # NoError
    THEN [error |-> pushed.error,
          value |-> [name |-> enumNode.name, indexing |-> 0, enumerators |-> <<>>]]
    ELSE [error |-> NoError,
          value |-> [name |-> enumNode.name,
                     indexing |-> indexing.value,
                     enumerators |-> IF pushed.enumerators = <<Null>>
                                     THEN <<>>
                                     ELSE pushed.enumerators]]

\* lines 283-318
Indexed(enumNode, indexing) ==
    IF findDirective(enumNode, "indexing") = 0
    THEN [error |-> GraphQLError("indexing directive is required for enums.",
                                 NodeOf(enumNode)),
          value |-> [name |-> enumNode.name, indexing |-> 0, enumerators |-> <<>>]]
    ELSE IF indexing.error # NoError
    THEN [error |-> indexing.error,
          value |-> [name |-> enumNode.name, indexing |-> 0, enumerators |-> <<>>]]
    ELSE Collapsed(enumNode, indexing, PushEnumerators(enumNode, 1, <<>>))

ValidatedEnum(enumNode, v) ==
    IF v # NoError
    THEN [error |-> v,
          value |-> [name |-> enumNode.name, indexing |-> 0, enumerators |-> <<>>]]
    ELSE Indexed(enumNode, getIndexingBase(enumNode))

\* [error, value]
parseEnumNode(enumNode) ==
    ValidatedEnum(enumNode, validateDirectives(enumNode, {"indexing"}))

----------------------------------------------------------------------------
(* The steps of readSchemaSources *)

\* lines 213-231, one top-level definition: [error, typeDefsMap, enumDefsMap]
InsertDefinition(maps, typeNode) ==
    IF typeNode.kind = "EnumTypeDefinition"
    THEN IF MapHas(maps.enumDefsMap, typeNode.name)
         THEN [error |-> GraphQLError("Enum with this name has already been defined.",
                                      NodeOf(typeNode) \o <<"name">>),
               typeDefsMap |-> maps.typeDefsMap, enumDefsMap |-> maps.enumDefsMap]
         ELSE [error |-> NoError, typeDefsMap |-> maps.typeDefsMap,
               enumDefsMap |-> Append(maps.enumDefsMap, typeNode)]
    ELSE IF typeNode.kind = "ObjectTypeDefinition"
    THEN IF MapHas(maps.typeDefsMap, typeNode.name)
         THEN [error |-> GraphQLError("Table with this name has already been defined.",
                                      NodeOf(typeNode) \o <<"name">>),
               typeDefsMap |-> maps.typeDefsMap, enumDefsMap |-> maps.enumDefsMap]
         ELSE [error |-> NoError, typeDefsMap |-> Append(maps.typeDefsMap, typeNode),
               enumDefsMap |-> maps.enumDefsMap]
    ELSE [error |-> GraphQLError("Unsupported definition.", NodeOf(typeNode)),
          typeDefsMap |-> maps.typeDefsMap, enumDefsMap |-> maps.enumDefsMap]

Tagged(typeNode, v, tags) ==
    IF v # NoError
    THEN [error |-> v, table |-> [name |-> typeNode.name, columns |-> <<>>, tags |-> <<>>]]
    ELSE [error |-> tags.error,
          table |-> [name |-> typeNode.name, columns |-> <<>>, tags |-> tags.list]]

\* lines 237-244, the head of a table: [error, table]
NewTable(typeNode) ==
    Tagged(typeNode, validateDirectives(typeNode, {"tags"}), getTags(typeNode))

\* Pushed without the test of lines 253-260
PushedUnchecked(t, fieldNode, r) ==
    IF r.error # NoError THEN [error |-> r.error, table |-> t]
    ELSE [error |-> NoError,
          table |-> [t EXCEPT !.columns = Append(t.columns, r.column)]]

\* lines 253-261: r is the result of parseFieldNode
Pushed(t, fieldNode, r) ==
    IF r.error # NoError THEN [error |-> r.error, table |-> t]
    ELSE IF /\ r.column.name # Null
            /\ \E k \in 1..Len(t.columns) : t.columns[k].name = r.column.name
    THEN [error |-> GraphQLError("Duplicate column name \"" \o r.column.name \o "\".",
                                 NodeOf(fieldNode) \o <<"name">>),
          table |-> t]
    ELSE [error |-> NoError,
          table |-> [t EXCEPT !.columns = Append(t.columns, r.column)]]

\* lines 248-261, one field of a table: [error, table]
PushColumn(ctx, t, fieldNode) ==
    Pushed(t, fieldNode, parseFieldNode(ctx, t.name, fieldNode))

----------------------------------------------------------------------------
(* readSchemaSources as a function of its argument *)

RECURSIVE Definitions(_)
\* the top-level definitions of all documents, in iteration order
Definitions(srcs) ==
    IF srcs = <<>> THEN <<>> ELSE Head(srcs) \o Definitions(Tail(srcs))

RECURSIVE CollectFrom(_, _, _)
\* lines 209-233 from definition i on
CollectFrom(defs, i, maps) ==
    IF i > Len(defs) \/ maps.error # NoError THEN maps
    ELSE CollectFrom(defs, i + 1, InsertDefinition(maps, defs[i]))

RECURSIVE ColumnsFrom(_, _, _, _)
\* lines 247-262 from field i on
ColumnsFrom(ctx, typeNode, i, r) ==
    IF i > Len(typeNode.fields) \/ r.error # NoError THEN r
    ELSE ColumnsFrom(ctx, typeNode, i + 1, PushColumn(ctx, r.table, typeNode.fields[i]))

AddTable(r, t) ==
    IF t.error # NoError THEN [error |-> t.error, tables |-> r.tables]
    ELSE [error |-> NoError, tables |-> Append(r.tables, t.table)]

AddEnum(r, e) ==
    IF e.error # NoError THEN [error |-> e.error, enumerations |-> r.enumerations]
    ELSE [error |-> NoError, enumerations |-> Append(r.enumerations, e.value)]

RECURSIVE TablesFrom(_, _, _)
\* lines 236-265 from table i on: r is [error, tables]
TablesFrom(ctx, i, r) ==
    IF i > Len(ctx.typeDefsMap) \/ r.error # NoError THEN r
    ELSE TablesFrom(ctx, i + 1,
                    AddTable(r, ColumnsFrom(ctx, ctx.typeDefsMap[i], 1,
                                            NewTable(ctx.typeDefsMap[i]))))

RECURSIVE EnumsFrom(_, _, _)
\* lines 268-270 from enum i on: r is [error, enumerations]
EnumsFrom(ctx, i, r) ==
    IF i > Len(ctx.enumDefsMap) \/ r.error # NoError THEN r
    ELSE EnumsFrom(ctx, i + 1, AddEnum(r, parseEnumNode(ctx.enumDefsMap[i])))

Returned(maps, ts, es) ==
    IF maps.error # NoError
    THEN [error |-> maps.error, tables |-> <<>>, enumerations |-> <<>>]
    ELSE IF ts.error # NoError
    THEN [error |-> ts.error, tables |-> <<>>, enumerations |-> <<>>]
    ELSE IF es.error # NoError
    THEN [error |-> es.error, tables |-> <<>>, enumerations |-> <<>>]
    ELSE [error |-> NoError, tables |-> ts.tables, enumerations |-> es.enumerations]

Resolve(maps) ==
    Returned(maps,
             TablesFrom(maps, 1, [error |-> NoError, tables |-> <<>>]),
             EnumsFrom(maps, 1, [error |-> NoError, enumerations |-> <<>>]))

\* [error, tables, enumerations]
readSchemaSources(srcs) ==
    Resolve(CollectFrom(Definitions(srcs), 1,
                        [error |-> NoError, typeDefsMap |-> <<>>, enumDefsMap |-> <<>>]))

----------------------------------------------------------------------------
(* Syntax trees *)

Named(n) == [kind |-> "NamedType", name |-> n]

List(t) == [kind |-> "ListType", type |-> t]

NonNull(t) == [kind |-> "NonNullType", type |-> t]

StringArg(n, v) == [name |-> n, kind |-> "StringValue", value |-> v, values |-> <<>>]

IntArg(n, v) == [name |-> n, kind |-> "IntValue", value |-> v, values |-> <<>>]

ListArg(n, vs) == [name |-> n, kind |-> "ListValue", value |-> "", values |-> vs]

StringValue(v) == [kind |-> "StringValue", value |-> v]

Directive(n, args) == [name |-> n, arguments |-> args]

Ref(column) == Directive("ref", <<StringArg("column", column)>>)

Unique == Directive("unique", <<>>)

Indexing(first) == Directive("indexing", <<IntArg("first", first)>>)

Field(n, t, ds) == [kind |-> "FieldDefinition", name |-> n, type |-> t, directives |-> ds]

ObjectType(n, ds, fs) ==
    [kind |-> "ObjectTypeDefinition", name |-> n, directives |-> ds, fields |-> fs,
     values |-> <<>>]

EnumType(n, ds, vs) ==
    [kind |-> "EnumTypeDefinition", name |-> n, directives |-> ds, fields |-> <<>>,
     values |-> vs]

ScalarType(n) ==
    [kind |-> "ScalarTypeDefinition", name |-> n, directives |-> <<>>, fields |-> <<>>,
     values |-> <<>>]

SeqsUpTo(S, n) == UNION {[1..k -> S] : k \in 0..n}

----------------------------------------------------------------------------
(* Inputs *)

\* One document: a table T with a probed field p and a target field, a
\* table B with the same target field, and an enum E.
ProbeTableNames == {"A", "_", "i32"}

ProbeTypeNames == {"A", "_", "i32", "string", "rid", "B", "E", "X"}

ProbeTypes ==
    {Named(n) : n \in ProbeTypeNames} \cup {List(Named(n)) : n \in ProbeTypeNames}
        \cup {NonNull(Named("i32")), List(List(Named("i32")))}

ProbeDirectives ==
    { <<>>,
      <<Unique>>,
      <<Ref("x")>>,
      <<Ref("_")>>,
      <<Ref("")>>,
      <<Ref("y")>>,
      <<Unique, Ref("x")>>,
      <<Ref("x"), Ref("y")>>,
      <<Directive("ref", <<>>)>>,
      <<Directive("ref", <<IntArg("column", "1")>>)>>,
      <<Directive("ref", <<StringArg("col", "x")>>)>>,
      <<Directive("ref", <<StringArg("column", "x"), StringArg("column", "x")>>)>>,
      <<Directive("unique", <<StringArg("column", "x")>>)>>,
      <<Directive("localized", <<>>)>>,
      <<Directive("file", <<StringArg("ext", "dds")>>)>>,
      <<Directive("file", <<StringArg("ext", "dds"), StringArg("ext", "png")>>)>>,
      <<Directive("files", <<ListArg("ext", <<StringValue("dds"), StringValue("png")>>)>>)>>,
      <<Directive("files", <<ListArg("ext", <<>>)>>), Directive("file", <<StringArg("ext", "dds")>>)>>,
      <<Directive("files", <<ListArg("ext", <<>>), ListArg("ext", <<>>)>>)>>,
      <<Directive("deprecated", <<>>)>> }

TargetFields ==
    { Field(n, t, ds) :
        n \in {"x", "_"},
        t \in {Named("i32"), Named("string"), List(Named("i32")), Named("B"), Named("_")},
        ds \in {<<>>, <<Unique>>} }

ProbeSource(T, t, ds, target) ==
    << << ObjectType(T, <<>>, <<Field("p", t, ds), target>>),
          ObjectType("B", <<>>, <<target>>),
          EnumType("E", <<Indexing("0")>>, <<"V">>) >> >>

\* One document with one table A of up to MaxFields fields.
ColumnFields ==
    { Field(n, t, <<>>) :
        n \in {"_", "a", "b"}, t \in {Named("i32"), List(Named("_")), Named("X")} }

ColumnSource(fs) == << << ObjectType("A", <<>>, fs) >> >>

\* One document with one enum E of up to MaxValues enumerators.
EnumDirectives ==
    { <<>>,
      <<Indexing("0")>>,
      <<Indexing("1")>>,
      <<Indexing("2")>>,
      <<Directive("indexing", <<>>)>>,
      <<Directive("indexing", <<StringArg("first", "0")>>)>>,
      <<Directive("indexing", <<IntArg("last", "0")>>)>>,
      <<Directive("indexing", <<IntArg("first", "0"), IntArg("first", "1")>>)>>,
      <<Directive("unique", <<>>)>> }

EnumSource(ds, vs) == << << EnumType("E", ds, vs) >> >>

\* Up to MaxDocs documents out of a catalogue of tables and enums that refer
\* to each other.
Tags(vs) == Directive("tags", <<ListArg("list", vs)>>)

Catalogue ==
    { << ObjectType("A", <<>>, <<Field("b", Named("B"), <<>>)>>) >>,
      << ObjectType("A", <<>>, <<Field("b", Named("B"), <<Ref("id")>>),
                                 Field("e", List(Named("E")), <<>>)>>) >>,
      << ObjectType("A", <<Tags(<<StringValue("t")>>)>>,
                    <<Field("id", Named("i32"), <<Unique>>)>>) >>,
      << ObjectType("A", <<Tags(<<>>)>>, <<>>) >>,
      << ObjectType("A", <<Tags(<<StringValue("t")>>), Directive("unique", <<>>)>>, <<>>) >>,
      << ObjectType("A", <<Directive("tags", <<ListArg("list", <<StringValue("t")>>),
                                               ListArg("list", <<StringValue("u")>>)>>)>>,
                    <<>>) >>,
      << ObjectType("B", <<>>, <<Field("id", Named("i32"), <<Unique>>),
                                 Field("a", List(Named("A")), <<>>)>>) >>,
      << ObjectType("B", <<>>, <<Field("id", Named("i32"), <<>>)>>) >>,
      << ObjectType("B", <<>>, <<Field("id", Named("string"), <<Unique>>)>>),
         EnumType("E", <<Indexing("1")>>, <<"_", "V">>) >>,
      << EnumType("E", <<Indexing("0")>>, <<"V">>) >>,
      << EnumType("E", <<>>, <<"V">>),
         ObjectType("B", <<>>, <<Field("e", Named("E"), <<>>)>>) >>,
      << ScalarType("S") >> }

----------------------------------------------------------------------------
(* The state machine *)

Ctx == [typeDefsMap |-> typeDefsMap, enumDefsMap |-> enumDefsMap]

NoTable == [name |-> "", columns |-> <<>>, tags |-> <<>>]

Init ==
    /\ \/ \E T \in ProbeTableNames, t \in ProbeTypes, ds \in ProbeDirectives,
                target \in TargetFields :
              sources = ProbeSource(T, t, ds, target)
       \/ \E fs \in SeqsUpTo(ColumnFields, MaxFields) : sources = ColumnSource(fs)
       \/ \E ds \in EnumDirectives, vs \in SeqsUpTo({"_", "A", "B"}, MaxValues) :
              sources = EnumSource(ds, vs)
       \/ sources \in SeqsUpTo(Catalogue, MaxDocs)
    /\ typeDefsMap = <<>>
    /\ enumDefsMap = <<>>
    /\ pc = IF sources = <<>> THEN "enums" ELSE "collect"
    /\ doc = 1
    /\ def = 1
    /\ tbl = 1
    /\ fld = 1
    /\ table = NoTable
    /\ tables = <<>>
    /\ enm = 1
    /\ enumerations = <<>>
    /\ error = NoError

Throw(e) ==
    /\ pc' = "thrown"
    /\ error' = e

Collected(r, endOfDoc) ==
    IF r.error # NoError
    THEN /\ Throw(r.error)
         /\ UNCHANGED <<typeDefsMap, enumDefsMap, doc, def>>
    ELSE /\ typeDefsMap' = r.typeDefsMap
         /\ enumDefsMap' = r.enumDefsMap
         /\ doc' = IF endOfDoc THEN doc + 1 ELSE doc
         /\ def' = IF endOfDoc THEN 1 ELSE def + 1
         /\ pc' = IF endOfDoc /\ doc = Len(sources)
                  THEN IF r.typeDefsMap = <<>> THEN "enums" ELSE "tables"
                  ELSE "collect"
         /\ UNCHANGED error

\* one iteration of the loop of lines 212-232
CollectDefinition ==
    /\ pc = "collect"
    /\ Collected(InsertDefinition(Ctx, sources[doc][def]), def = Len(sources[doc]))
    /\ UNCHANGED <<sources, tbl, fld, table, tables, enm, enumerations>>

Begun(r) ==
    IF r.error # NoError
    THEN /\ Throw(r.error)
         /\ UNCHANGED <<table, fld>>
    ELSE /\ table' = r.table
         /\ fld' = 1
         /\ pc' = "fields"
         /\ UNCHANGED error

\* lines 237-246: the head of the next table
BeginTable ==
    /\ pc = "tables"
    /\ Begun(NewTable(typeDefsMap[tbl]))
    /\ UNCHANGED <<sources, typeDefsMap, enumDefsMap, doc, def, tbl, tables, enm,
                   enumerations>>

FieldDone(r) ==
    IF r.error # NoError
    THEN /\ Throw(r.error)
         /\ UNCHANGED <<table, fld>>
    ELSE /\ table' = r.table
         /\ fld' = fld + 1
         /\ UNCHANGED <<pc, error>>

\* lines 247-262: one field of the table
ResolveField ==
    /\ pc = "fields"
    /\ fld <= Len(typeDefsMap[tbl].fields)
    /\ FieldDone(PushColumn(Ctx, table, typeDefsMap[tbl].fields[fld]))
    /\ UNCHANGED <<sources, typeDefsMap, enumDefsMap, doc, def, tbl, tables, enm,
                   enumerations>>

\* line 264: the table is complete
EndTable ==
    /\ pc = "fields"
    /\ fld > Len(typeDefsMap[tbl].fields)
    /\ tables' = Append(tables, table)
    /\ tbl' = tbl + 1
    /\ pc' = IF tbl = Len(typeDefsMap) THEN "enums" ELSE "tables"
    /\ UNCHANGED <<sources, typeDefsMap, enumDefsMap, doc, def, fld, table, enm,
                   enumerations, error>>

EnumDone(r) ==
    IF r.error # NoError
    THEN /\ Throw(r.error)
         /\ UNCHANGED <<enumerations, enm>>
    ELSE /\ enumerations' = Append(enumerations, r.value)
         /\ enm' = enm + 1
         /\ UNCHANGED <<pc, error>>

\* lines 268-270: one enum
ParseEnum ==
    /\ pc = "enums"
    /\ enm <= Len(enumDefsMap)
    /\ EnumDone(parseEnumNode(enumDefsMap[enm]))
    /\ UNCHANGED <<sources, typeDefsMap, enumDefsMap, doc, def, tbl, fld, table, tables>>

\* line 272
Return ==
    /\ pc = "enums"
    /\ enm > Len(enumDefsMap)
    /\ pc' = "returned"
    /\ UNCHANGED <<sources, typeDefsMap, enumDefsMap, doc, def, tbl, fld, table,
                   tables, enm, enumerations, error>>

Next ==
    \/ CollectDefinition
    \/ BeginTable
    \/ ResolveField
    \/ EndTable
    \/ ParseEnum
    \/ Return

Spec == Init /\ [][Next]_vars

----------------------------------------------------------------------------
(* Sanity of the model *)

Agree(r) ==
    /\ pc = "returned" => /\ r.error = NoError
                          /\ r.tables = tables
                          /\ r.enumerations = enumerations
    /\ pc = "thrown" => r.error = error

\* the machine ends as readSchemaSources says
StepsAgree == Agree(readSchemaSources(sources))

----------------------------------------------------------------------------
(* Reading the state *)

\* the run was aborted by the field fld of the table tbl (lines 248-260)
ThrownInField ==
    /\ pc = "thrown"
    /\ doc > Len(sources)
    /\ tbl <= Len(typeDefsMap)
    /\ table.name = typeDefsMap[tbl].name

DuplicateColumn(e, f) ==
    /\ e.type = "GraphQLError"
    /\ e.message = "Duplicate column name \"" \o f.name \o "\"."
    /\ e.nodes = NodeOf(f) \o <<"name">>
    /\ e.originalError = NoCause

\* the run was aborted by parseFieldNode on the field fld (line 248)
ThrownByParseField == ThrownInField /\ ~DuplicateColumn(error, typeDefsMap[tbl].fields[fld])

\* the run was aborted by the enum enm (line 269)
ThrownInEnum ==
    /\ pc = "thrown"
    /\ doc > Len(sources)
    /\ tbl > Len(typeDefsMap)

\* table.columns[k] is the column of FieldAt(k) in these states
InTable == pc = "fields" \/ ThrownInField

FieldAt(k) == typeDefsMap[tbl].fields[k]

HasRef(f) == findDirective(f, "ref") # 0

\* the annotations of f pass validateDirectives and the assert.ok of the readers
Annotated(f) ==
    /\ validateDirectives(f, {"ref", "unique", "localized", "file", "files"}) = NoError
    /\ referencesField(f).error = NoError
    /\ getFileExtension(f).error = NoError
    /\ getFileGroupExtensions(f).error = NoError

UnresolvedReference(e, f, base) ==
    /\ e.type = "GraphQLError"
    /\ e.message = "Can't find referenced table/enum \"" \o base \o "\"."
    /\ e.nodes = NodeOf(f) \o <<"type">>
    /\ e.originalError = NoCause

PlaceholderType(e, f) ==
    /\ e.type = "GraphQLError"
    /\ e.message = "Unknown type is only allowed inside an array."
    /\ e.nodes = NodeOf(f) \o <<"type">>
    /\ e.originalError = NoCause

----------------------------------------------------------------------------
(* C1 *)

\* the rule of C1 that a base name matches first, 0 when it matches none
FirstRule(T, u) ==
    IF u.name = T THEN 1
    ELSE IF u.name = "rid" THEN 2
    ELSE IF u.name = "_" /\ u.array THEN 3
    ELSE IF u.name \in {"bool", "string", "i16", "i32", "f32"} THEN 4
    ELSE IF \E i \in 1..Len(typeDefsMap) : typeDefsMap[i].name = u.name THEN 5
    ELSE IF \E i \in 1..Len(enumDefsMap) : enumDefsMap[i].name = u.name THEN 6
    ELSE 0

ByRule(rule, T, u, c) ==
    /\ rule # 0
    /\ rule = 1 => c.type = "row" /\ c.references = [table |-> T]
    /\ rule = 2 => c.type = "foreignrow" /\ c.references = NullRef
    /\ rule = 3 => c.type = "array" /\ c.references = NullRef
    /\ rule = 4 => c.type = u.name /\ c.references = NullRef
    /\ rule = 5 => c.type = "foreignrow" /\ c.references = [table |-> u.name]
    /\ rule = 6 => c.type = "enumrow" /\ c.references = [table |-> u.name]
    /\ c.type \in {"bool", "string", "i16", "i32", "f32", "row", "foreignrow",
                   "enumrow", "array"}

\* C1: a column resolved from a field without a ref annotation has the type
\* and the references of the first rule its unwrapped base name matches (own
\* table, rid, [_], scalar, table, enum), which is one of the nine column
\* types; and such a field, once its annotations are valid and its type
\* unwraps, aborts the run with the unresolved-reference error exactly when
\* its base name matches no rule.
C1_FirstMatchingRule ==
    /\ InTable =>
         \A k \in 1..Len(table.columns) :
            ~HasRef(FieldAt(k)) =>
                ByRule(FirstRule(table.name, unwrapType(FieldAt(k))), table.name,
                       unwrapType(FieldAt(k)), table.columns[k])
    /\ (/\ ThrownByParseField
        /\ ~HasRef(FieldAt(fld))
        /\ Annotated(FieldAt(fld))
        /\ unwrapType(FieldAt(fld)).error = NoError) =>
         /\ FirstRule(table.name, unwrapType(FieldAt(fld))) = 0
         /\ UnresolvedReference(error, FieldAt(fld), unwrapType(FieldAt(fld)).name)

\* a table called like a scalar refers to itself: the first rule wins
C1_Witness ==
    /\ pc = "fields"
    /\ table.name = "i32"
    /\ Len(table.columns) = 1
    /\ ~HasRef(FieldAt(1))
    /\ unwrapType(FieldAt(1)).name = "i32"
    /\ table.columns[1].type = "row"

----------------------------------------------------------------------------
(* C2 *)

SelfReference(T, c) ==
    /\ c.type = "row"
    /\ c.references = [table |-> T]
    /\ "column" \notin DOMAIN c.references

\* C2 as stated: every column resolved from a field whose base type name is
\* the name of its table, whatever its annotations, has type row and
\* references {table: T} without a column key.
C2_SelfReferenceAlways ==
    InTable =>
        \A k \in 1..Len(table.columns) :
            unwrapType(FieldAt(k)).name = table.name =>
                SelfReference(table.name, table.columns[k])

\* C2 as amended: the same for the fields that carry no ref annotation.
C2_SelfReferenceWithoutRef ==
    InTable =>
        \A k \in 1..Len(table.columns) :
            (unwrapType(FieldAt(k)).name = table.name /\ ~HasRef(FieldAt(k))) =>
                SelfReference(table.name, table.columns[k])

\* a list of the own table, with an annotation that is not ref
C2_Witness ==
    /\ pc = "fields"
    /\ Len(table.columns) = 1
    /\ FieldAt(1).type = List(Named(table.name))
    /\ FieldAt(1).directives = <<Unique>>
    /\ table.columns[1].type = "row"
    /\ table.columns[1].array

----------------------------------------------------------------------------
(* C3 *)

\* C3 as stated: in every table a resolved field of type [_] has type array,
\* and a field of type _ with valid annotations aborts the run with the
\* placeholder-type error and yields no column.
C3_PlaceholderInEveryTable ==
    /\ InTable =>
         \A k \in 1..Len(table.columns) :
            /\ FieldAt(k).type = List(Named("_")) => table.columns[k].type = "array"
            /\ FieldAt(k).type # Named("_")
    /\ (/\ ThrownByParseField
        /\ FieldAt(fld).type = Named("_")
        /\ validateDirectives(FieldAt(fld),
                              {"ref", "unique", "localized", "file", "files"}) = NoError
        /\ referencesField(FieldAt(fld)).error = NoError) =>
         PlaceholderType(error, FieldAt(fld))

\* C3 as amended: in a table that is not called _ a resolved field of type
\* [_] has type array and no references; in the table called _ it refers to
\* that table and never has type array; a field of type _ yields no column
\* and, its annotations being valid, aborts the run with the
\* placeholder-type error.
C3_PlaceholderUnlessOwnTable ==
    /\ InTable =>
         \A k \in 1..Len(table.columns) :
            /\ (FieldAt(k).type = List(Named("_")) /\ table.name # "_") =>
                  /\ table.columns[k].type = "array"
                  /\ table.columns[k].references = NullRef
            /\ (FieldAt(k).type = List(Named("_")) /\ table.name = "_") =>
                  /\ table.columns[k].type # "array"
                  /\ table.columns[k].references # NullRef
                  /\ table.columns[k].references.table = "_"
            /\ FieldAt(k).type # Named("_")
    /\ (/\ ThrownByParseField
        /\ FieldAt(fld).type = Named("_")
        /\ validateDirectives(FieldAt(fld),
                              {"ref", "unique", "localized", "file", "files"}) = NoError
        /\ referencesField(FieldAt(fld)).error = NoError) =>
         PlaceholderType(error, FieldAt(fld))

\* the table called _ aborts on a field of type _
C3_Witness ==
    /\ ThrownByParseField
    /\ table.name = "_"
    /\ FieldAt(fld).type = Named("_")
    /\ PlaceholderType(error, FieldAt(fld))

----------------------------------------------------------------------------
(* C4 *)

\* the declaration of the table called name
Declared(name) ==
    typeDefsMap[CHOOSE i \in 1..Len(typeDefsMap) : typeDefsMap[i].name = name]

\* t is declared with a scalar type, not a list, and unique, and c has its type
MirrorsTarget(c, t) ==
    /\ t.type.kind = "NamedType"
    /\ t.type.name \in {"bool", "string", "i16", "i32", "f32"}
    /\ \E i \in 1..Len(t.directives) : t.directives[i].name = "unique"
    /\ c.type = t.type.name

PointsAt(c, x) ==
    /\ c.references # NullRef
    /\ "column" \in DOMAIN c.references
    /\ c.references.column = x
    /\ \E i \in 1..Len(typeDefsMap) : typeDefsMap[i].name = c.references.table
    /\ FirstNamed(Declared(c.references.table).fields, x) # 0
    /\ MirrorsTarget(c, Declared(c.references.table).fields[
                            FirstNamed(Declared(c.references.table).fields, x)])

\* C4: a column resolved from a field with the annotation ref(column: x), x
\* any string, has references.column = x and the type of the field called x
\* of the referenced table, which is declared scalar, not a list, and unique.
C4_RefMirrorsTarget ==
    InTable =>
        \A k \in 1..Len(table.columns) :
            HasRef(FieldAt(k)) =>
                PointsAt(table.columns[k], referencesField(FieldAt(k)).value)

----------------------------------------------------------------------------
(* C8 *)

\* the failure of findReferencedField on the field t, NoError when it returns
TargetFailure(t) ==
    IF (IF t.type.kind = "ListType" THEN t.type.type.kind ELSE t.type.kind) # "NamedType"
    THEN GraphQLError("Valid type expected.", NodeOf(t) \o <<"type">>)
    ELSE IF t.type = Named("_")
    THEN GraphQLError("Unknown type is only allowed inside an array.",
                      NodeOf(t) \o <<"type">>)
    ELSE IF t.type.kind = "ListType"
    THEN GraphQLError("Cannot refer to a column with an array type.",
                      NodeOf(t) \o <<"type">>)
    ELSE IF \A i \in 1..Len(t.directives) : t.directives[i].name # "unique"
    THEN GraphQLError("Values in the referenced column must be unique.", NodeOf(t))
    ELSE IF t.type.name \notin {"bool", "string", "i16", "i32", "f32"}
    THEN GraphQLError("Cannot refer to a column with a non-scalar type.",
                      NodeOf(t) \o <<"type">>)
    ELSE NoError

\* e is attributed to the ref annotation of f and wraps cause
Nested(e, f, cause) ==
    /\ e.type = "GraphQLError"
    /\ e.message = "An error occurred while validating the referenced column."
    /\ e.nodes = NodeOf(f) \o <<"Directive", "ref">>
    /\ e.originalError # NoCause
    /\ e.originalError = [type |-> cause.type, message |-> cause.message,
                          nodes |-> cause.nodes]

\* e is attributed to the ref annotation of f and wraps nothing
NotFound(e, f, x, R) ==
    /\ e.type = "GraphQLError"
    /\ e.message = "Can't find column \"" \o x \o "\" in table \"" \o R \o "\"."
    /\ e.nodes = NodeOf(f) \o <<"Directive", "ref">>
    /\ e.originalError = NoCause

\* parseFieldNode aborted on a field with a ref annotation whose annotations
\* are valid and whose classification refers to a declared table
ThrownResolvingRef ==
    /\ ThrownByParseField
    /\ HasRef(FieldAt(fld))
    /\ Annotated(FieldAt(fld))
    /\ unwrapType(FieldAt(fld)).error = NoError
    /\ FirstRule(table.name, unwrapType(FieldAt(fld))) \in {1, 5}

\* the name of the table the field fld refers to, and the column named
RefTable == unwrapType(FieldAt(fld)).name

RefColumn == referencesField(FieldAt(fld)).value

RefTargetIndex == FirstNamed(Declared(RefTable).fields, RefColumn)

\* C8 as stated: every failure to resolve the referenced column, the column
\* not being found included, is a nested error on the ref annotation that
\* wraps the original failure.
C8_EveryFailureNested ==
    ThrownResolvingRef =>
        /\ error.type = "GraphQLError"
        /\ error.nodes = NodeOf(FieldAt(fld)) \o <<"Directive", "ref">>
        /\ error.originalError # NoCause

\* C8 as amended: a referenced column that is declared with an invalid type,
\* as a list, not unique or not scalar is a nested error on the ref
\* annotation that wraps that failure; a referenced column that is not found
\* is an error on the ref annotation that wraps nothing.
C8_NestedUnlessNotFound ==
    ThrownResolvingRef =>
        IF RefTargetIndex = 0
        THEN NotFound(error, FieldAt(fld), RefColumn, RefTable)
        ELSE /\ TargetFailure(Declared(RefTable).fields[RefTargetIndex]) # NoError
             /\ Nested(error, FieldAt(fld),
                       TargetFailure(Declared(RefTable).fields[RefTargetIndex]))

\* a reference to a column that is not unique
C8_Witness ==
    /\ ThrownResolvingRef
    /\ RefTargetIndex # 0
    /\ error.originalError.message = "Values in the referenced column must be unique."

----------------------------------------------------------------------------
(* C9 *)

\* C9: parseFieldNode on a field with a ref annotation that reaches the
\* classification aborts with an assertion failure exactly when the
\* classification left references null (rules 2, 3, 4); no such field is
\* resolved with references null, and a row, foreignrow or enumrow field
\* only ever fails with a schema error.
C9_AssertionIffNoTarget ==
    /\ (/\ ThrownByParseField
        /\ HasRef(FieldAt(fld))
        /\ Annotated(FieldAt(fld))
        /\ unwrapType(FieldAt(fld)).error = NoError
        /\ FirstRule(table.name, unwrapType(FieldAt(fld))) # 0) =>
          (error.type = "AssertionError"
             <=> FirstRule(table.name, unwrapType(FieldAt(fld))) \in {2, 3, 4})
    /\ InTable =>
          \A k \in 1..Len(table.columns) :
              HasRef(FieldAt(k)) =>
                  FirstRule(table.name, unwrapType(FieldAt(k))) \in {1, 5, 6}

----------------------------------------------------------------------------
(* C10 *)

ScalarTarget(c, t) ==
    /\ t.unique
    /\ ~t.array
    /\ t.references = NullRef
    /\ t.type \in {"bool", "string", "i16", "i32", "f32"}
    /\ t.type = c.type

HasTarget(c) ==
    \E r \in 1..Len(tables) :
        /\ tables[r].name = c.references.table
        /\ c.references.column # Null
        /\ Cardinality({j \in 1..Len(tables[r].columns) :
                           tables[r].columns[j].name = c.references.column}) = 1
        /\ \A j \in 1..Len(tables[r].columns) :
              tables[r].columns[j].name = c.references.column =>
                  ScalarTarget(c, tables[r].columns[j])

\* C10: in the tables returned, every column with references {table: R,
\* column: c} has exactly one column called c in the table R, which is
\* unique, scalar, not an array, without references, and of the same type.
C10_ReferentialIntegrity ==
    pc = "returned" =>
        \A i \in 1..Len(tables) :
            \A k \in 1..Len(tables[i].columns) :
                (/\ tables[i].columns[k].references # NullRef
                 /\ "column" \in DOMAIN tables[i].columns[k].references) =>
                    HasTarget(tables[i].columns[k])

----------------------------------------------------------------------------
(* C5 *)

ColumnName(f) == IF f.name = "_" THEN Null ELSE f.name

Collides(f) ==
    /\ f.name # "_"
    /\ \E j \in 1..Len(table.columns) : table.columns[j].name = f.name

\* C5: the columns collected for a table are those of its first fields, in
\* order, named like the field or null for the field _, and no two of them
\* have the same name unless it is null; a field that parseFieldNode resolves
\* aborts the run, with the duplicate-column error and nothing appended, if
\* and only if its name is not _ and is the name of a column collected.
C5_NoDuplicateColumnNames ==
    /\ InTable =>
         /\ Len(table.columns) = fld - 1
         /\ \A k \in 1..Len(table.columns) :
               table.columns[k].name = ColumnName(FieldAt(k))
         /\ \A j, k \in 1..Len(table.columns) :
               (j # k /\ table.columns[j].name = table.columns[k].name) =>
                   table.columns[j].name = Null
    /\ \A i \in 1..Len(tables) :
          \A j, k \in 1..Len(tables[i].columns) :
              (j # k /\ tables[i].columns[j].name = tables[i].columns[k].name) =>
                  tables[i].columns[j].name = Null
    /\ (ThrownInField /\ parseFieldNode(Ctx, table.name, FieldAt(fld)).error = NoError) =>
          /\ Collides(FieldAt(fld))
          /\ DuplicateColumn(error, FieldAt(fld))

\* the third field repeats the name of the second, the first is called _
C5_Witness ==
    /\ ThrownInField
    /\ DuplicateColumn(error, FieldAt(fld))
    /\ Len(table.columns) = 2
    /\ table.columns[1].name = Null
    /\ table.columns[2].name = FieldAt(fld).name

----------------------------------------------------------------------------
(* C6 *)

\* the indexing annotation of the enum e is valid
ValidIndexing(e) ==
    /\ validateDirectives(e, {"indexing"}) = NoError
    /\ findDirective(e, "indexing") # 0
    /\ getIndexingBase(e).error = NoError

\* the value at j repeats an earlier one that is not _
Repeats(vs, j) == vs[j] # "_" /\ \E i \in 1..(j - 1) : vs[i] = vs[j]

NamesOf(vs) == [k \in 1..Len(vs) |-> IF vs[k] = "_" THEN Null ELSE vs[k]]

DuplicateEnumerator(e, enumNode, j) ==
    /\ e.type = "GraphQLError"
    /\ e.message = "Duplicate enumerator \"" \o enumNode.values[j] \o "\"."
    /\ e.nodes = NodeOf(enumNode) \o <<"values", enumNode.values[j], "name">>
    /\ e.originalError = NoCause

\* C6: an enum with a valid indexing annotation aborts the run, with the
\* duplicate-enumerator error on the first value that repeats an earlier one,
\* exactly when a name other than _ is declared twice; else its enumerators
\* are the declared ones in order with null for _, a single _ alone giving
\* the empty sequence; no two enumerators are equal unless both are null.
C6_Enumerators ==
    /\ \A n \in 1..Len(enumerations) :
          /\ \A j \in 1..Len(enumDefsMap[n].values) : ~Repeats(enumDefsMap[n].values, j)
          /\ enumerations[n].enumerators =
                IF enumDefsMap[n].values = <<"_">> THEN <<>>
                ELSE NamesOf(enumDefsMap[n].values)
          /\ \A j, k \in 1..Len(enumerations[n].enumerators) :
                (j # k /\ enumerations[n].enumerators[j] = enumerations[n].enumerators[k])
                    => enumerations[n].enumerators[j] = Null
    /\ (ThrownInEnum /\ ValidIndexing(enumDefsMap[enm])) =>
          \E j \in 1..Len(enumDefsMap[enm].values) :
              /\ Repeats(enumDefsMap[enm].values, j)
              /\ \A i \in 1..(j - 1) : ~Repeats(enumDefsMap[enm].values, i)
              /\ DuplicateEnumerator(error, enumDefsMap[enm], j)

\* two placeholders and nothing else are kept
C6_Witness ==
    /\ pc = "returned"
    /\ Len(enumerations) = 1
    /\ enumDefsMap[1].values = <<"_", "_">>
    /\ enumerations[1].enumerators = <<Null, Null>>

----------------------------------------------------------------------------
(* C7 *)

\* the maps once every definition of every document is inserted
AllDefinitions ==
    CollectFrom(Definitions(sources), 1,
                [error |-> NoError, typeDefsMap |-> <<>>, enumDefsMap |-> <<>>])

\* the run is still in the loop of lines 209-233, or was aborted there
Collecting == pc = "collect" \/ (pc = "thrown" /\ doc <= Len(sources))

\* the documents in the order p
Reordered(p) == [k \in 1..Len(sources) |-> sources[p[k]]]

\* r is the result for the documents in another order
SameOutcome(r) ==
    /\ r.error = NoError <=> pc = "returned"
    /\ pc = "returned" =>
          /\ Len(r.tables) = Len(tables)
          /\ \A i \in 1..Len(tables) :
                \E j \in 1..Len(r.tables) :
                    /\ r.tables[j].name = tables[i].name
                    /\ r.tables[j].columns = tables[i].columns

\* C7: while definitions are being inserted no table is begun and no column
\* resolved; from then on the maps hold every definition of every document
\* and do not change; and a run that ends succeeds exactly when the run on
\* any reordering of the documents succeeds, every table having then the
\* same columns in both.
C7_OrderIndependent ==
    /\ Collecting => /\ table = NoTable
                     /\ tables = <<>>
                     /\ enumerations = <<>>
    /\ ~Collecting => /\ AllDefinitions.error = NoError
                      /\ typeDefsMap = AllDefinitions.typeDefsMap
                      /\ enumDefsMap = AllDefinitions.enumDefsMap
    /\ pc \in {"returned", "thrown"} =>
          \A p \in Permutations(1..Len(sources)) :
              SameOutcome(readSchemaSources(Reordered(p)))

\* the table A of the first document has a column of the table B and one of
\* the enum E, both declared in the second document
C7_Witness ==
    /\ pc = "returned"
    /\ Len(sources) = 2
    /\ sources[1][1].name = "A"
    /\ \A k \in 1..Len(sources[1]) : sources[1][k].name \notin {"B", "E"}
    /\ tables[1].name = "A"
    /\ \E k \in 1..Len(tables[1].columns) :
          /\ tables[1].columns[k].type = "string"
          /\ tables[1].columns[k].references = [table |-> "B", column |-> "id"]
    /\ \E k \in 1..Len(tables[1].columns) :
          /\ tables[1].columns[k].type = "enumrow"
          /\ tables[1].columns[k].references = [table |-> "E"]

====
